---------------------------- MODULE Spec2Model ----------------------------
(***************************************************************************)
(* AirStatus (src/main.py): BLE advertisement filter, 10 s beacon window,  *)
(* AirPods payload decoder and the scan life cycle of run_async.           *)
(*                                                                         *)
(* Python values are represented as follows.                               *)
(*   - an optional value is a sequence of length <= 1: None is <<>>,       *)
(*     a present value v is <<v>>;                                         *)
(*   - a str / bytes hex string is a sequence of one-character strings;    *)
(*   - raw bytes are sequences of integers 0..255;                         *)
(*   - a dict keyed by vendor id is a function on a set of integers;       *)
(*   - time_ns() is read in whole seconds.                                 *)
(***************************************************************************)
EXTENDS Integers, Sequences, FiniteSets, TLC

VARIABLES
    pc,         \* position of run_async: "start", "sleep", "poll", "read", "stopped"
    attempt,    \* loop variable of `for attempt in range(6)` (next attempt index)
    started,    \* scanner.start() has succeeded: callbacks are delivered
    use_poll,   \* run_async.use_poll
    recent,     \* the module-level list `recent`
    now,        \* the clock read by time_ns(), in seconds
    raised,     \* the exception that left run_async: "none", "start", "sweep", "sink", "signal", "decode"
    startReqs,  \* history: number of scanner.start() calls
    stopReqs,   \* history: number of scanner.stop() calls
    stopErr,    \* history: the last scanner.stop() raised (and was swallowed)
    kicks,      \* history: number of kick_adapter() calls
    sweeps,     \* history: number of discover() calls
    sweep,      \* history: outcome of this tick's discover(): "none", "ok", "busy", "fatal"
    nTicks,     \* history: number of completed asyncio.sleep(UPDATE_DURATION)
    nAdv,       \* history: number of advertisement events delivered by the facility
    nOut,       \* history: number of payloads handed to dumps()/the sink
    lastOut,    \* history: the last payload built by a tick (optional)
    lastS,      \* history: the value pick_strongest() returned in the last tick (optional)
    lastRet,    \* history: the value the last keep_best() call returned (optional)
    lastOp,     \* history: the last window operation: "none", "insert", "strongest"
    decArg,     \* history: the argument of the last tick's decode_airpods call (optional)
    raw_hex,    \* decoder harness: the payload under test
    decoded,    \* decoder harness: decode_airpods(raw_hex) once applied (optional)
    event,      \* filter harness: the advertisement under test
    path,       \* filter harness: the ingestion path applied: "none", "scan", "discover"
    hex_len     \* the value AIRPODS_DATA_HEX_LEN got from the environment at import

vars == << pc, attempt, started, use_poll, recent, now, raised, startReqs,
           stopReqs, stopErr, kicks, sweeps, sweep, nTicks, nAdv, nOut, lastOut,
           lastS, lastRet, lastOp, decArg, raw_hex, decoded, event, path,
           hex_len >>

ctlVars == << pc, attempt, started, use_poll, recent, now, raised, startReqs,
              stopReqs, stopErr, kicks, sweeps, sweep, nTicks, nAdv, nOut,
              lastOut, lastS, lastRet, lastOp, decArg >>

-----------------------------------------------------------------------------
(* Python value helpers *)

None == <<>>
Some(v) == <<v>>
IsNone(x) == x = <<>>
Val(x) == x[1]

\* Python `x or d` for an optional string: None and "" are both falsy.
OrStr(x, d) == IF IsNone(x) \/ Val(x) = <<>> THEN d ELSE Val(x)

\* Python `x or d` for an optional int: None and 0 are both falsy.
OrInt(x, d) == IF IsNone(x) \/ Val(x) = 0 THEN d ELSE Val(x)

Range(s) == {s[i] : i \in 1..Len(s)}

HexDigits == << "0", "1", "2", "3", "4", "5", "6", "7",
                "8", "9", "a", "b", "c", "d", "e", "f" >>

\* binascii.hexlify: two lowercase hex digits per byte, high nibble first.
hexlify(b) ==
    [i \in 1..(2 * Len(b)) |->
        IF i % 2 = 1 THEN HexDigits[(b[(i + 1) \div 2] \div 16) + 1]
                     ELSE HexDigits[(b[i \div 2] % 16) + 1]]

\* int(chr(c), 16) for one hex digit character.
HexInt(c) == (CHOOSE k \in 1..16 : HexDigits[k] = c) - 1

\* raw_hex[idx] with Python's 0-based index.
At(raw, idx) == raw[idx + 1]

\* v & mask for a single-bit mask (1, 2 or 4).
BitAnd(v, mask) == ((v \div mask) % 2) * mask

UpperCase == << "A", "B", "C", "D", "E", "F", "G", "H", "I", "J", "K", "L", "M",
                "N", "O", "P", "Q", "R", "S", "T", "U", "V", "W", "X", "Y", "Z" >>
LowerCase == << "a", "b", "c", "d", "e", "f", "g", "h", "i", "j", "k", "l", "m",
                "n", "o", "p", "q", "r", "s", "t", "u", "v", "w", "x", "y", "z" >>

\* str.lower()
lower(s) ==
    [i \in 1..Len(s) |->
        IF \E k \in 1..26 : UpperCase[k] = s[i]
        THEN LowerCase[CHOOSE k \in 1..26 : UpperCase[k] = s[i]]
        ELSE s[i]]

\* Python `h in s` for strings.
StrIn(h, s) ==
    \E k \in 0..(Len(s) - Len(h)) : \A j \in 1..Len(h) : s[k + j] = h[j]

-----------------------------------------------------------------------------
(* Configuration, src/main.py lines 12-21 (defaults) *)

UPDATE_DURATION == 1
MinRssiLower == -90 - 1
MIN_RSSI == -90
AIRPODS_MANUFACTURER == 76
AIRPODS_DATA_HEX_LEN == 54
RECENT_BEACONS_MAX_T_NS == 10
NAME_HINTS ==
    << << "A", "i", "r", "P", "o", "d", "s" >>,
       << "A", "i", "r", "P", "o", "d", "s", " ", "P", "r", "o" >>,
       << "A", "i", "r", "P", "o", "d", "s", " ", "P", "r", "o", " ", "2" >>,
       << "A", "i", "r", "P", "o", "d", "s", "3" >>,
       << "A", "i", "r", "P", "o", "d", "s", " ", "M", "a", "x" >> >>

\* a start loop of seven attempts
StartAttemptsMore == 6 + 1

\* range(6) of the start loop, the sleeps after kick_adapter and after an
\* InProgress discover(), and discover(timeout=3.0)
START_ATTEMPTS == 6
FallbackNever == 5 + 1
FallbackEarly == 5 - 1
FALLBACK_ATTEMPT == 5
SETTLE_SEC == 1
BACKOFF_SEC == 1
DISCOVER_TIMEOUT == 3
RSSI_SENTINEL == -999

-----------------------------------------------------------------------------
(* Protocol decoder, src/main.py lines 45-82 *)

is_flipped(raw) == BitAnd(HexInt(At(raw, 10)), 2) = 0

pct_value_nocap(v) == IF v <= 10 THEN v * 10 + 5 ELSE -1

\* the transform of pct_at on the nibble value
pct_value(v) == IF v = 10 THEN 100 ELSE (IF v <= 10 THEN v * 10 + 5 ELSE -1)

pct_at(raw, idx) == pct_value(HexInt(At(raw, idx)))

model_of(c7) ==
    IF c7 = "e" THEN "AirPodsPro"
    ELSE IF c7 = "3" THEN "AirPods3"
    ELSE IF c7 = "f" THEN "AirPods2"
    ELSE IF c7 = "2" THEN "AirPods1"
    ELSE IF c7 = "a" THEN "AirPodsMax"
    ELSE "unknown"

charging_left_noflip(chg, flip) == BitAnd(chg, 1) # 0

charging_left_of(chg, flip) == BitAnd(chg, IF flip THEN 2 ELSE 1) # 0

charging_right_of(chg, flip) == BitAnd(chg, IF flip THEN 1 ELSE 2) # 0

\* decode_airpods(raw_hex); `date` is the clock reading handed over by the caller
decode_airpods(raw, date) ==
    LET flip == is_flipped(raw)
        c7 == At(raw, 7)
        left == pct_at(raw, IF flip THEN 12 ELSE 13)
        right == pct_at(raw, IF flip THEN 13 ELSE 12)
        case == pct_at(raw, 15)
        chg == HexInt(At(raw, 14))
    IN  [ status |-> 1,
          charge |-> [left |-> left, right |-> right, case |-> case],
          charging_left |-> charging_left_of(chg, flip),
          charging_right |-> charging_right_of(chg, flip),
          charging_case |-> (BitAnd(chg, 4) # 0),
          model |-> model_of(c7),
          date |-> date,
          raw |-> raw ]

\* the offsets decode_airpods subscripts raw_hex with
DecodeOffsets == {7, 10, 12, 13, 14, 15}

\* raw_hex[idx] raises IndexError when idx is not below len(raw_hex)
decode_raises(raw) == \E idx \in DecodeOffsets : ~(idx < Len(raw))

-----------------------------------------------------------------------------
(* Beacon window, src/main.py lines 23-43 and 84-95 *)

Expired_late(e, t) == t - e.time > RECENT_BEACONS_MAX_T_NS + 1

\* the eviction test `now - recent[i]["time"] > RECENT_BEACONS_MAX_T_NS`
Expired(e, t) == t - e.time > RECENT_BEACONS_MAX_T_NS

\* the replacement test `(recent[i].rssi or -999) > (strongest.rssi or -999)`
Stronger(e, s) ==
    OrInt(e.device.rssi, RSSI_SENTINEL) > OrInt(s.device.rssi, RSSI_SENTINEL)

\* list.pop(i) with a 0-based index
Pop(lst, i) == [k \in 1..(Len(lst) - 1) |-> IF k <= i THEN lst[k] ELSE lst[k + 1]]

\* the while loop shared by keep_best and pick_strongest, from index i on
RECURSIVE scan(_, _, _, _)
scan(lst, i, strongest, t) ==
    IF ~(i < Len(lst)) THEN [recent |-> lst, strongest |-> strongest]
    ELSE IF Expired(lst[i + 1], t) THEN scan(Pop(lst, i), i, strongest, t)
    ELSE IF IsNone(strongest) \/ Stronger(lst[i + 1], Val(strongest))
         THEN scan(lst, i + 1, Some(lst[i + 1]), t)
         ELSE scan(lst, i + 1, strongest, t)

\* pick_strongest() at clock reading t: the list left behind and the return value
pick_strongest(lst, t) == scan(lst, 0, None, t)

\* keep_best as it would be if line 42 refreshed the stored strongest in place
keep_best_in_place(lst, device, mfg_hex, name, t) ==
    LET entry == [time |-> t, device |-> device, mfg_hex |-> mfg_hex, name |-> name]
        r == scan(Append(lst, entry), 0, None, t)
        same == ~IsNone(r.strongest)
                /\ Val(r.strongest).device.address = device.address
    IN  [ recent |-> [k \in 1..Len(r.recent) |->
                        IF same /\ r.recent[k] = Val(r.strongest)
                        THEN [r.recent[k] EXCEPT !.time = t]
                        ELSE r.recent[k]],
          ret |-> IF same THEN Some([Val(r.strongest) EXCEPT !.time = t])
                  ELSE r.strongest ]

\* keep_best(device, mfg_hex, name) at clock reading t (its two time_ns()
\* readings fall in the same second); the stored entries are never rewritten:
\* the refreshed record of line 42 is only returned
keep_best(lst, device, mfg_hex, name, t) ==
    LET entry == [time |-> t, device |-> device, mfg_hex |-> mfg_hex, name |-> name]
        r == scan(Append(lst, entry), 0, None, t)
    IN  [ recent |-> r.recent,
          ret |-> IF ~IsNone(r.strongest)
                     /\ Val(r.strongest).device.address = device.address
                  THEN Some(entry)
                  ELSE r.strongest ]

-----------------------------------------------------------------------------
(* Advertisement filter, src/main.py lines 125-139 and 144-158 *)

EmptyMap == << >>

\* matches_name as it would be if any non-empty name matched
matches_name_any(name) == name # << >>

\* any(h.lower() in name.lower() for h in NAME_HINTS) if name else False
matches_name(name) ==
    IF name # << >>
    THEN \E k \in 1..Len(NAME_HINTS) : StrIn(lower(NAME_HINTS[k]), lower(name))
    ELSE FALSE

\* on_adv with the threshold test written `<=`
on_adv_strict(device, adv_data) ==
    LET name == IF ~IsNone(adv_data)
                THEN OrStr(Val(adv_data).local_name, OrStr(device.name, << >>))
                ELSE OrStr(device.name, << >>)
        mfg == IF IsNone(adv_data) THEN EmptyMap ELSE Val(adv_data).manufacturer_data
        has_apple == AIRPODS_MANUFACTURER \in DOMAIN mfg
    IN  IF ~has_apple /\ ~matches_name(name) THEN None
        ELSE IF IsNone(device.rssi) \/ Val(device.rssi) <= MIN_RSSI THEN None
        ELSE Some([ device |-> device,
                    mfg_hex |-> IF has_apple
                                THEN Some(hexlify(mfg[AIRPODS_MANUFACTURER]))
                                ELSE None,
                    name |-> name ])

\* on_adv(device, adv_data) up to its keep_best call: the arguments of that
\* call, or None when the event is dropped by one of the two early returns
on_adv(device, adv_data) ==
    LET name == IF ~IsNone(adv_data)
                THEN OrStr(Val(adv_data).local_name, OrStr(device.name, << >>))
                ELSE OrStr(device.name, << >>)
        mfg == IF IsNone(adv_data) THEN EmptyMap ELSE Val(adv_data).manufacturer_data
        has_apple == AIRPODS_MANUFACTURER \in DOMAIN mfg
    IN  IF ~has_apple /\ ~matches_name(name) THEN None
        ELSE IF IsNone(device.rssi) \/ Val(device.rssi) < MIN_RSSI THEN None
        ELSE Some([ device |-> device,
                    mfg_hex |-> IF has_apple
                                THEN Some(hexlify(mfg[AIRPODS_MANUFACTURER]))
                                ELSE None,
                    name |-> name ])

\* the body of `for d in devs` in poll_once_with_discover up to its keep_best
\* call: the arguments of that call, or None when the device is skipped
on_discovered(d) ==
    LET name == OrStr(d.name, << >>)
        mfg == d.metadata.manufacturer_data
        has_apple == AIRPODS_MANUFACTURER \in DOMAIN mfg
    IN  IF ~has_apple /\ ~matches_name(name) THEN None
        ELSE IF IsNone(d.rssi) \/ Val(d.rssi) < MIN_RSSI THEN None
        ELSE Some([ device |-> d,
                    mfg_hex |-> IF has_apple
                                THEN Some(hexlify(mfg[AIRPODS_MANUFACTURER]))
                                ELSE None,
                    name |-> name ])

\* the window and return value after the keep_best call a qualifying event makes
ingest(lst, q, t) ==
    IF IsNone(q) THEN [recent |-> lst, ret |-> None]
    ELSE keep_best(lst, Val(q).device, Val(q).mfg_hex, Val(q).name, t)

\* the for loop of poll_once_with_discover over the devices from index i on
RECURSIVE ingest_all(_, _, _, _)
ingest_all(lst, devs, i, t) ==
    IF i > Len(devs) THEN lst
    ELSE ingest_all(ingest(lst, on_discovered(devs[i]), t).recent, devs, i + 1, t)

-----------------------------------------------------------------------------
(* Bounds of the model and the inputs the scanning facility may deliver *)

MaxTicks == 2
MaxAdv == 2
MaxWinTicks == 2
MaxWinAdv == 3

\* a vendor id other than the target one
OtherVendor == AIRPODS_MANUFACTURER + 1

\* two 27-byte manufacturer frames (54 hex digits) and a 2-byte frame
ValidBytes1 ==
    [i \in 1..27 |->
        IF i = 1 THEN 7 ELSE IF i = 2 THEN 25 ELSE IF i = 3 THEN 1
        ELSE IF i = 4 THEN 14 ELSE IF i = 5 THEN 32 ELSE IF i = 6 THEN 11
        ELSE IF i = 7 THEN 133 ELSE IF i = 8 THEN 58 ELSE 0]
ValidBytes2 ==
    [i \in 1..27 |->
        IF i = 1 THEN 7 ELSE IF i = 2 THEN 25 ELSE IF i = 3 THEN 1
        ELSE IF i = 4 THEN 15 ELSE IF i = 5 THEN 32 ELSE IF i = 6 THEN 43
        ELSE IF i = 7 THEN 185 ELSE IF i = 8 THEN 31 ELSE 0]
ShortBytes == << 7, 25 >>

NameAirPodsPro == << "A", "i", "r", "P", "o", "d", "s", " ", "P", "r", "o" >>
NameMixedCase == << "m", "y", " ", "a", "I", "R", "p", "O", "D", "S" >>
NameBuds == << "B", "u", "d", "s" >>
NameAirPod == << "A", "i", "r", "P", "o", "d" >>

Advert(address, name, rssi, mfg) ==
    [address |-> address, name |-> name, rssi |-> rssi, mfg |-> mfg]

\* advertisements seen by the facility: (address, name, rssi, manufacturer map)
Adverts ==
    { Advert("A", Some(NameAirPodsPro), Some(-50), AIRPODS_MANUFACTURER :> ValidBytes1),
      Advert("B", Some(<< >>), Some(0), AIRPODS_MANUFACTURER :> ValidBytes2),
      Advert("A", Some(NameMixedCase), Some(-90), OtherVendor :> ShortBytes),
      Advert("B", None, Some(-50), AIRPODS_MANUFACTURER :> ShortBytes),
      Advert("A", Some(NameAirPodsPro), Some(-91), AIRPODS_MANUFACTURER :> ValidBytes1),
      Advert("B", Some(NameBuds), Some(-50), OtherVendor :> ShortBytes),
      Advert("B", Some(NameAirPodsPro), None, AIRPODS_MANUFACTURER :> ValidBytes2) }

\* the BLEDevice handed to either path
DeviceOf(a) ==
    [address |-> a.address, name |-> a.name, rssi |-> a.rssi,
     metadata |-> [manufacturer_data |-> a.mfg]]

\* the AdvertisementData handed to the callback
AdvDataOf(a) == Some([local_name |-> a.name, manufacturer_data |-> a.mfg])

\* the lists discover() may return
Sweeps ==
    {<< >>} \cup {<< DeviceOf(a) >> : a \in Adverts}
            \cup {<< DeviceOf(a), DeviceOf(b) >> : a \in Adverts, b \in Adverts}

\* how long asyncio.sleep(UPDATE_DURATION) may take to return
SleepTimes == {UPDATE_DURATION, RECENT_BEACONS_MAX_T_NS}

-----------------------------------------------------------------------------
(* Tick body, src/main.py lines 186-208 *)

\* `raw_hex is not None and len(raw_hex) == AIRPODS_DATA_HEX_LEN` for a found
\* entry; the right-hand side is whatever the environment configured
tick_decodes(strongest) ==
    /\ ~IsNone(strongest)
    /\ ~IsNone(Val(strongest).mfg_hex)
    /\ Len(Val(Val(strongest).mfg_hex)) = hex_len

\* tick_payload with the two degraded model strings exchanged
tick_payload_models_swapped(strongest, t) ==
    IF IsNone(strongest) THEN [status |-> 0, model |-> "AirPods not found"]
    ELSE IF tick_decodes(strongest)
         THEN decode_airpods(Val(Val(strongest).mfg_hex), t)
         ELSE [ status |-> 0,
                model |-> IF Val(strongest).name # << >>
                          THEN "Apple device detected" ELSE "AirPods detected",
                note |-> IF ~IsNone(Val(strongest).mfg_hex)
                         THEN "Manufacturer frame present but unsupported length"
                         ELSE "Matched by name only",
                rssi |-> Val(strongest).device.rssi,
                name |-> Val(strongest).name,
                date |-> t ]

\* the payload built from what pick_strongest() returned
tick_payload(strongest, t) ==
    IF IsNone(strongest) THEN [status |-> 0, model |-> "AirPods not found"]
    ELSE IF tick_decodes(strongest)
         THEN decode_airpods(Val(Val(strongest).mfg_hex), t)
         ELSE [ status |-> 0,
                model |-> IF Val(strongest).name # << >>
                          THEN "AirPods detected" ELSE "Apple device detected",
                note |-> IF ~IsNone(Val(strongest).mfg_hex)
                         THEN "Manufacturer frame present but unsupported length"
                         ELSE "Matched by name only",
                rssi |-> Val(strongest).device.rssi,
                name |-> Val(strongest).name,
                date |-> t ]

-----------------------------------------------------------------------------
(* Scan life cycle, src/main.py lines 141-213 *)

NoEvent == [address |-> "", name |-> None, rssi |-> None, mfg |-> << >>]

CtlInit ==
    /\ pc = "start"
    /\ attempt = 0
    /\ started = FALSE
    /\ use_poll = FALSE
    /\ recent = << >>
    /\ now = 0
    /\ raised = "none"
    /\ startReqs = 0
    /\ stopReqs = 0
    /\ stopErr = FALSE
    /\ kicks = 0
    /\ sweeps = 0
    /\ sweep = "none"
    /\ nTicks = 0
    /\ nAdv = 0
    /\ nOut = 0
    /\ lastOut = None
    /\ lastS = None
    /\ lastRet = None
    /\ lastOp = "none"
    /\ decArg = None

Init ==
    /\ CtlInit
    /\ raw_hex = << >>
    /\ decoded = None
    /\ event = NoEvent
    /\ path = "none"
    /\ hex_len = AIRPODS_DATA_HEX_LEN

harnessVars == << raw_hex, decoded, event, path >>

\* the finally clause as it would be if only a started scanner were stopped
Finally_started_only ==
    /\ stopReqs' = IF started THEN stopReqs + 1 ELSE stopReqs
    /\ \E err \in BOOLEAN : stopErr' = (started /\ err)
    /\ pc' = "stopped"

\* `finally: try: await scanner.stop() except Exception: pass`
Finally ==
    /\ stopReqs' = stopReqs + 1
    /\ \E err \in BOOLEAN : stopErr' = err
    /\ pc' = "stopped"

\* scanner.start() succeeds: break
StartOk ==
    /\ pc = "start"
    /\ startReqs' = startReqs + 1
    /\ started' = TRUE
    /\ pc' = "sleep"
    /\ UNCHANGED << attempt, use_poll, recent, now, raised, stopReqs, stopErr,
                    kicks, sweeps, sweep, nTicks, nAdv, nOut, lastOut, lastS,
                    lastRet, lastOp, decArg, harnessVars, hex_len >>

\* StartInProgress as it would be if the last failure skipped the reset
StartInProgress_no_last_kick ==
    /\ pc = "start"
    /\ startReqs' = startReqs + 1
    /\ kicks' = IF attempt = FALLBACK_ATTEMPT THEN kicks ELSE kicks + 1
    /\ now' = IF attempt = FALLBACK_ATTEMPT THEN now ELSE now + SETTLE_SEC
    /\ use_poll' = IF attempt = FALLBACK_ATTEMPT THEN TRUE ELSE use_poll
    /\ attempt' = attempt + 1
    /\ pc' = IF attempt + 1 < START_ATTEMPTS THEN "start" ELSE "sleep"
    /\ UNCHANGED << started, recent, raised, stopReqs, stopErr, sweeps, sweep,
                    nTicks, nAdv, nOut, lastOut, lastS, lastRet, lastOp, decArg,
                    harnessVars, hex_len >>

\* scanner.start() raises BleakDBusError "InProgress": kick, settle, next attempt
StartInProgress ==
    /\ pc = "start"
    /\ startReqs' = startReqs + 1
    /\ kicks' = kicks + 1
    /\ now' = now + SETTLE_SEC
    /\ use_poll' = IF attempt = FALLBACK_ATTEMPT THEN TRUE ELSE use_poll
    /\ attempt' = attempt + 1
    /\ pc' = IF attempt + 1 < START_ATTEMPTS THEN "start" ELSE "sleep"
    /\ UNCHANGED << started, recent, raised, stopReqs, stopErr, sweeps, sweep,
                    nTicks, nAdv, nOut, lastOut, lastS, lastRet, lastOp, decArg,
                    harnessVars, hex_len >>

\* StartFatal as it would be with the start loop inside the try/finally
StartFatal_with_stop ==
    /\ pc = "start"
    /\ startReqs' = startReqs + 1
    /\ raised' = "start"
    /\ Finally
    /\ UNCHANGED << attempt, started, use_poll, recent, now, kicks, sweeps, sweep,
                    nTicks, nAdv, nOut, lastOut, lastS, lastRet, lastOp, decArg,
                    harnessVars, hex_len >>

\* scanner.start() raises anything else: re-raised outside the try/finally
StartFatal ==
    /\ pc = "start"
    /\ startReqs' = startReqs + 1
    /\ raised' = "start"
    /\ pc' = "stopped"
    /\ UNCHANGED << attempt, started, use_poll, recent, now, stopReqs, stopErr,
                    kicks, sweeps, sweep, nTicks, nAdv, nOut, lastOut, lastS,
                    lastRet, lastOp, decArg, harnessVars, hex_len >>

\* OnAdv as it would be if the tick body suspended before reading the window
OnAdv_mid_tick(a) ==
    /\ started
    /\ pc \in {"sleep", "read"}
    /\ nAdv' = nAdv + 1
    /\ LET q == on_adv(DeviceOf(a), AdvDataOf(a))
           r == ingest(recent, q, now)
       IN  /\ recent' = r.recent
           /\ lastRet' = r.ret
           /\ lastOp' = IF IsNone(q) THEN lastOp ELSE "insert"
    /\ UNCHANGED << pc, attempt, started, use_poll, now, raised, startReqs,
                    stopReqs, stopErr, kicks, sweeps, sweep, nTicks, nOut,
                    lastOut, lastS, decArg, harnessVars, hex_len >>

\* the detection callback runs while run_async is suspended in its sleep
OnAdv(a) ==
    /\ started
    /\ pc = "sleep"
    /\ nAdv' = nAdv + 1
    /\ LET q == on_adv(DeviceOf(a), AdvDataOf(a))
           r == ingest(recent, q, now)
       IN  /\ recent' = r.recent
           /\ lastRet' = r.ret
           /\ lastOp' = IF IsNone(q) THEN lastOp ELSE "insert"
    /\ UNCHANGED << pc, attempt, started, use_poll, now, raised, startReqs,
                    stopReqs, stopErr, kicks, sweeps, sweep, nTicks, nOut,
                    lastOut, lastS, decArg, harnessVars, hex_len >>

\* await asyncio.sleep(UPDATE_DURATION) returns after d seconds
Sleep(d) ==
    /\ pc = "sleep"
    /\ nTicks' = nTicks + 1
    /\ now' = now + d
    /\ sweep' = "none"
    /\ lastOp' = "none"
    /\ pc' = IF use_poll THEN "poll" ELSE "read"
    /\ UNCHANGED << attempt, started, use_poll, recent, raised, startReqs,
                    stopReqs, stopErr, kicks, sweeps, nAdv, nOut, lastOut, lastS,
                    lastRet, decArg, harnessVars, hex_len >>

\* poll_once_with_discover: discover() returns devs, each is filtered and kept
PollOk(devs) ==
    /\ pc = "poll"
    /\ nAdv' = nAdv + Len(devs)
    /\ sweeps' = sweeps + 1
    /\ now' = now + DISCOVER_TIMEOUT
    /\ recent' = ingest_all(recent, devs, 1, now')
    /\ lastOp' = IF \E i \in 1..Len(devs) : ~IsNone(on_discovered(devs[i]))
                 THEN "insert" ELSE "none"
    /\ lastRet' = IF Len(devs) = 0 THEN lastRet
                  ELSE ingest(ingest_all(recent, SubSeq(devs, 1, Len(devs) - 1), 1, now'),
                              on_discovered(devs[Len(devs)]), now').ret
    /\ sweep' = "ok"
    /\ pc' = "read"
    /\ UNCHANGED << attempt, started, use_poll, raised, startReqs, stopReqs,
                    stopErr, kicks, nTicks, nOut, lastOut, lastS, decArg,
                    harnessVars, hex_len >>

poll_in_progress_skip == "sleep"

\* where run_async continues after poll_once_with_discover returned early
poll_in_progress_next == "read"

\* poll_once_with_discover: discover() raises "InProgress": back off and return
PollInProgress ==
    /\ pc = "poll"
    /\ sweeps' = sweeps + 1
    /\ now' = now + BACKOFF_SEC
    /\ sweep' = "busy"
    /\ pc' = poll_in_progress_next
    /\ UNCHANGED << attempt, started, use_poll, recent, raised, startReqs,
                    stopReqs, stopErr, kicks, nTicks, nAdv, nOut, lastOut, lastS,
                    lastRet, lastOp, decArg, harnessVars, hex_len >>

\* poll_once_with_discover: discover() raises anything else: re-raised
PollFatal ==
    /\ pc = "poll"
    /\ sweeps' = sweeps + 1
    /\ sweep' = "fatal"
    /\ raised' = "sweep"
    /\ Finally
    /\ UNCHANGED << attempt, started, use_poll, recent, now, startReqs, kicks,
                    nTicks, nAdv, nOut, lastOut, lastS, lastRet, lastOp, decArg,
                    harnessVars, hex_len >>

\* pick_strongest, build the payload, dumps and write; sinkOk: the write succeeds
TickRead(sinkOk) ==
    /\ pc = "read"
    /\ LET r == pick_strongest(recent, now)
       IN  /\ recent' = r.recent
           /\ lastS' = r.strongest
           /\ decArg' = IF tick_decodes(r.strongest)
                        THEN Some(Val(Val(r.strongest).mfg_hex)) ELSE None
           /\ IF tick_decodes(r.strongest)
                 /\ decode_raises(Val(Val(r.strongest).mfg_hex))
              THEN \* IndexError leaves the loop before a payload exists
                   /\ raised' = "decode"
                   /\ Finally
                   /\ UNCHANGED << lastOut, nOut >>
              ELSE /\ lastOut' = Some(tick_payload(r.strongest, now))
                   /\ nOut' = nOut + 1
                   /\ IF sinkOk
                      THEN /\ pc' = "sleep"
                           /\ UNCHANGED << raised, stopReqs, stopErr >>
                      ELSE /\ raised' = "sink"
                           /\ Finally
    /\ lastOp' = "strongest"
    /\ UNCHANGED << attempt, started, use_poll, now, startReqs, kicks, sweeps,
                    sweep, nTicks, nAdv, lastRet, harnessVars, hex_len >>

\* cancellation / KeyboardInterrupt delivered while suspended inside the try
Interrupt ==
    /\ pc \in {"sleep", "poll"}
    /\ raised' = "signal"
    /\ Finally
    /\ UNCHANGED << attempt, started, use_poll, recent, now, startReqs, kicks,
                    sweeps, sweep, nTicks, nAdv, nOut, lastOut, lastS, lastRet,
                    lastOp, decArg, harnessVars, hex_len >>

\* cancellation / KeyboardInterrupt delivered during the start loop
InterruptStart ==
    /\ pc = "start"
    /\ raised' = "signal"
    /\ pc' = "stopped"
    /\ UNCHANGED << attempt, started, use_poll, recent, now, startReqs, stopReqs,
                    stopErr, kicks, sweeps, sweep, nTicks, nAdv, nOut, lastOut,
                    lastS, lastRet, lastOp, decArg, harnessVars, hex_len >>

Next ==
    \/ StartOk
    \/ StartInProgress
    \/ StartFatal
    \/ \E a \in Adverts : nAdv < MaxAdv /\ OnAdv(a)
    \/ \E d \in SleepTimes : nTicks < MaxTicks /\ Sleep(d)
    \/ \E devs \in Sweeps : nAdv + Len(devs) <= MaxAdv /\ PollOk(devs)
    \/ PollInProgress
    \/ PollFatal
    \/ \E sinkOk \in BOOLEAN : TickRead(sinkOk)
    \/ Interrupt
    \/ InterruptStart

Spec == Init /\ [][Next]_vars

-----------------------------------------------------------------------------
(* Event-driven run: the first scanner.start() succeeds, the sink accepts   *)
(* every line, and the facility delivers name-matched advertisements of    *)
(* two devices at the signal strengths below.                               *)

NameAirPods == << "A", "i", "r", "P", "o", "d", "s" >>

WinAdverts ==
    { Advert("A", Some(NameAirPods), Some(MIN_RSSI), EmptyMap),
      Advert("A", Some(NameAirPods), Some(-50), EmptyMap),
      Advert("B", Some(NameAirPods), Some(-50), EmptyMap),
      Advert("B", Some(NameAirPods), Some(0), EmptyMap),
      Advert("A", Some(NameAirPods), Some(5), EmptyMap) }

WinNext ==
    \/ attempt = 0 /\ StartOk
    \/ \E a \in WinAdverts : nAdv < MaxWinAdv /\ OnAdv(a)
    \/ \E d \in SleepTimes : nTicks < MaxWinTicks /\ Sleep(d)
    \/ TickRead(TRUE)

WinSpec == Init /\ [][WinNext]_vars

-----------------------------------------------------------------------------
(* Filter harness: one advertisement, fed through either ingestion path *)

FilterNames ==
    {None, Some(<< >>), Some(NameAirPodsPro), Some(NameMixedCase), Some(NameBuds),
     Some(NameAirPod)}

FilterRssis == {None, Some(MIN_RSSI - 1), Some(MIN_RSSI), Some(MIN_RSSI + 1), Some(0), Some(5)}

FilterMaps ==
    { EmptyMap,
      AIRPODS_MANUFACTURER :> ValidBytes1,
      AIRPODS_MANUFACTURER :> ShortBytes,
      AIRPODS_MANUFACTURER :> << >>,
      OtherVendor :> ValidBytes1,
      (AIRPODS_MANUFACTURER :> ValidBytes2) @@ (OtherVendor :> ShortBytes) }

FilterInit ==
    /\ CtlInit
    /\ raw_hex = << >>
    /\ decoded = None
    /\ event \in {Advert("A", n, r, m) : n \in FilterNames, r \in FilterRssis, m \in FilterMaps}
    /\ path = "none"
    /\ hex_len = AIRPODS_DATA_HEX_LEN

\* the facility invokes the callback; `via` says which object carries the name
FeedScan(via) ==
    /\ path = "none"
    /\ via = "noadv" => event.mfg = EmptyMap
    /\ LET device == [address |-> event.address,
                      name |-> IF via = "local" THEN None ELSE event.name,
                      rssi |-> event.rssi,
                      metadata |-> [manufacturer_data |-> event.mfg]]
           adv_data == IF via = "noadv" THEN None
                       ELSE Some([local_name |-> IF via = "local" THEN event.name ELSE None,
                                  manufacturer_data |-> event.mfg])
           r == ingest(recent, on_adv(device, adv_data), now)
       IN  /\ recent' = r.recent
           /\ lastRet' = r.ret
    /\ path' = "scan"
    /\ UNCHANGED << pc, attempt, started, use_poll, now, raised, startReqs,
                    stopReqs, stopErr, kicks, sweeps, sweep, nTicks, nAdv, nOut,
                    lastOut, lastS, lastOp, decArg, raw_hex, decoded, event,
                    hex_len >>

\* discover() returns the one device; the for loop of poll_once_with_discover
FeedDiscover ==
    /\ path = "none"
    /\ LET r == ingest(recent, on_discovered(DeviceOf(event)), now)
       IN  /\ recent' = r.recent
           /\ lastRet' = r.ret
    /\ path' = "discover"
    /\ UNCHANGED << pc, attempt, started, use_poll, now, raised, startReqs,
                    stopReqs, stopErr, kicks, sweeps, sweep, nTicks, nAdv, nOut,
                    lastOut, lastS, lastOp, decArg, raw_hex, decoded, event,
                    hex_len >>

FilterNext ==
    \/ \E via \in {"local", "device", "noadv"} : FeedScan(via)
    \/ FeedDiscover

FilterSpec == FilterInit /\ [][FilterNext]_vars

-----------------------------------------------------------------------------
(* Decoder harness: decode_airpods applied to bounded families of payloads *)

HexChars == Range(HexDigits)

\* a 54-digit payload with the six digits decode_airpods reads set as given
MkPayload(c7, c10, c12, c13, c14, c15) ==
    [i \in 1..AIRPODS_DATA_HEX_LEN |->
        IF i = 8 THEN c7
        ELSE IF i = 11 THEN c10
        ELSE IF i = 13 THEN c12
        ELSE IF i = 14 THEN c13
        ELSE IF i = 15 THEN c14
        ELSE IF i = 16 THEN c15
        ELSE "0"]

SamplePayload == MkPayload("e", "0", "5", "7", "3", "a")

DecInit ==
    /\ CtlInit
    /\ \/ \* every nibble at the three charge offsets, both flip settings
          raw_hex \in {MkPayload("e", c10, c12, c13, "0", c15) :
                          c10 \in {"0", "2"}, c12 \in HexChars,
                          c13 \in HexChars, c15 \in HexChars}
       \/ \* every digit at the flip, left/right charge and charging-flag offsets
          raw_hex \in {MkPayload("e", c10, c12, c13, c14, "a") :
                          c10 \in HexChars, c12 \in HexChars,
                          c13 \in HexChars, c14 \in HexChars}
       \/ \* every digit at the model offset
          raw_hex \in {MkPayload(c7, c10, "5", "7", "3", "a") :
                          c7 \in HexChars, c10 \in {"0", "2"}}
    /\ decoded = None
    /\ event = NoEvent
    /\ path = "none"
    /\ hex_len = AIRPODS_DATA_HEX_LEN

Decode ==
    /\ IsNone(decoded)
    /\ decoded' = Some(decode_airpods(raw_hex, now))
    /\ UNCHANGED << ctlVars, raw_hex, event, path, hex_len >>

DecNext == Decode

DecSpec == DecInit /\ [][DecNext]_vars

-----------------------------------------------------------------------------
(* The program under a configured payload length, src/main.py line 15 *)

\* values AIRSTATUS_HEX_LEN may be set to: the length of a two-byte frame and
\* the default
ConfiguredLens == {2 * Len(ShortBytes), AIRPODS_DATA_HEX_LEN}

CfgInit ==
    /\ CtlInit
    /\ raw_hex = << >>
    /\ decoded = None
    /\ event = NoEvent
    /\ path = "none"
    /\ hex_len \in ConfiguredLens

CfgSpec == CfgInit /\ [][Next]_vars

-----------------------------------------------------------------------------
(* The program with a facility that answers every start request *)

\* scanner.start() returns or raises
StartResponse == StartOk \/ StartInProgress \/ StartFatal

FairSpec == Spec /\ WF_vars(StartResponse)

-----------------------------------------------------------------------------
(* Properties *)

NoteUnsupported == "Manufacturer frame present but unsupported length"
NoteNameOnly == "Matched by name only"

\* the record a tick must emit for the selected observation S, as the
\* specification words it
RecordFor(S, out) ==
    IF IsNone(S)
    THEN out = [status |-> 0, model |-> "AirPods not found"]
    ELSE LET p == Val(S).mfg_hex
         IN  IF IsNone(p) \/ Len(Val(p)) # 54
             THEN /\ out.status = 0
                  /\ out.note = IF IsNone(p) THEN NoteNameOnly ELSE NoteUnsupported
                  /\ out.model = IF Val(S).name = << >>
                                 THEN "Apple device detected" ELSE "AirPods detected"
             ELSE /\ out.status = 1
                  /\ out = decode_airpods(Val(p), out.date)

\* C1: every tick that reads the window, in EventDriven and in Polling alike,
\* emits exactly one record, whose shape is fixed by the strongest observation S:
\* none -> not-found; payload absent or of a length other than 54 -> degraded
\* (note and model as specified); payload of length 54 -> the decoder's record.
\* The decoder is invoked on payloads of length 54 only.
C1_TickRecord ==
    /\ pc = "sleep" => nOut = nTicks
    /\ pc \in {"poll", "read"} => nOut = nTicks - 1
    /\ nOut = 0 => IsNone(lastOut) /\ IsNone(decArg)
    /\ nOut > 0 =>
        /\ ~IsNone(lastOut)
        /\ RecordFor(lastS, Val(lastOut))
        /\ ~IsNone(decArg) <=> Val(lastOut).status = 1
        /\ ~IsNone(decArg) => /\ Len(Val(decArg)) = 54
                              /\ decArg = Val(lastS).mfg_hex
    /\ lastOp = "strongest" /\ ~IsNone(lastS) => Val(lastS) \in Range(recent)

\* C1 witness: a Polling tick emitted the degraded record of a nameless
\* observation whose frame has the wrong length
C1_Witness ==
    /\ use_poll
    /\ nOut > 0
    /\ ~IsNone(lastS)
    /\ Val(lastOut).status = 0
    /\ Val(lastOut).note = NoteUnsupported
    /\ Val(lastOut).model = "Apple device detected"

\* C2: at most 6 start requests per run; after six "in progress" failures the
\* controller is in Polling, issues no further start request, and every tick
\* performs one discover() sweep before it reads the window.
C2_PollingAfterSix ==
    /\ startReqs <= 6
    /\ kicks = 6 =>
        /\ use_poll
        /\ ~started
        /\ startReqs = 6
        /\ pc # "start"
        /\ pc = "poll" => sweeps = nTicks - 1
        /\ pc \in {"read", "sleep"} => sweeps = nTicks
        /\ pc = "read" => sweep \in {"ok", "busy"}
        /\ nOut <= sweeps

\* C2 witness: a Polling tick has swept and read the window
C2_Witness == kicks = 6 /\ use_poll /\ sweeps = 2 /\ nOut = 2 /\ startReqs = 6

\* C3 as claimed: a start failure other than "in progress" is fatal and the
\* controller requests the facility to stop before it ends in Stopped.
C3_StopAfterFatalStart == raised = "start" => (pc = "stopped" /\ stopReqs >= 1)

\* C3 as amended: a start failure other than "in progress" is fatal: it is
\* propagated, no further start attempt or tick happens and the controller
\* ends in Stopped; no stop request is made (the start loop is outside the
\* try/finally).
C3_FatalStartNoStop ==
    /\ [](raised = "start" =>
            /\ pc = "stopped"
            /\ stopReqs = 0
            /\ ~started
            /\ startReqs = attempt + 1
            /\ nTicks = 0
            /\ nOut = 0)
    /\ [][raised # "start"]_vars

\* C3 witness: the third start request failed fatally
C3_Witness == raised = "start" /\ pc = "stopped" /\ startReqs = 3

\* a tick whose sweep reported "in progress" has completed its read
BusyTickDone == sweep = "busy" /\ nOut = nTicks

\* C4 as claimed: a Polling tick whose sweep reports "in progress" stays in
\* Polling and skips decoding: no decoder call, no status 1 record.
C4_BusySkipsDecoding ==
    BusyTickDone => (use_poll /\ IsNone(decArg) /\ Val(lastOut).status # 1)

\* C4 as amended: a Polling tick whose sweep reports "in progress" waits the
\* backoff, stays in Polling and inserts nothing, but it does not skip
\* decoding: it goes on to read the window and emits one record, which is the
\* decoder's record whenever the strongest unexpired observation carries a
\* payload of the expected length.
C4_BusyStillDecodes ==
    /\ [](BusyTickDone =>
            /\ use_poll
            /\ RecordFor(lastS, Val(lastOut))
            /\ (~IsNone(lastS) /\ ~IsNone(Val(lastS).mfg_hex)
                  /\ Len(Val(Val(lastS).mfg_hex)) = 54)
               => (Val(lastOut).status = 1 /\ decArg = Val(lastS).mfg_hex))
    /\ [][(sweep # "busy" /\ sweep' = "busy") =>
            /\ now' = now + 1
            /\ recent' = recent
            /\ use_poll'
            /\ pc' = "read"]_vars

\* C4 witness: such a tick emitted a decoded record
C4_Witness == BusyTickDone /\ Val(lastOut).status = 1 /\ ~IsNone(decArg)

\* the RSSI of a stored entry (the filter stores present values only)
RssiOf(e) == Val(e.device.rssi)

\* the greatest RSSI among the entries of a non-empty window
MaxRssi(lst) == CHOOSE m \in {RssiOf(e) : e \in Range(lst)} :
                    \A e \in Range(lst) : RssiOf(e) <= m

\* C5 as claimed: strongest() returns an unexpired entry of numerically
\* greatest RSSI (0 and positive values included), and none exactly when no
\* unexpired entry exists.
C5_StrongestIsGreatest ==
    lastOp = "strongest" =>
        IF IsNone(lastS) THEN recent = << >>
        ELSE /\ Val(lastS) \in Range(recent)
             /\ \A e \in Range(recent) : RssiOf(e) <= RssiOf(Val(lastS))

\* C6 as claimed: when several unexpired entries share the greatest RSSI,
\* strongest() returns the earliest-inserted of them.
C6_TieEarliestWins ==
    (lastOp = "strongest" /\ recent # << >>) =>
        LET top == {i \in 1..Len(recent) : RssiOf(recent[i]) = MaxRssi(recent)}
            first == CHOOSE i \in top : \A j \in top : i <= j
        IN  Cardinality(top) >= 2 => lastS = Some(recent[first])

\* C6 where no stored RSSI is 0: the tie-break holds, so C6 fails only through
\* the `rssi or -999` defect of C5.
C6_TieEarliestWinsNonZero ==
    (lastOp = "strongest" /\ recent # << >>
        /\ \A e \in Range(recent) : RssiOf(e) # 0) =>
        LET top == {i \in 1..Len(recent) : RssiOf(recent[i]) = MaxRssi(recent)}
            first == CHOOSE i \in top : \A j \in top : i <= j
        IN  lastS = Some(recent[first])

\* C7: immediately after an insert or a strongest() call no stored entry is
\* older than the horizon (10 s); strongest() never returns an entry older than
\* the horizon and returns none only from an empty window; an entry younger
\* than the horizon is never removed.
C7_Eviction ==
    /\ [](lastOp \in {"insert", "strongest"} =>
            \A e \in Range(recent) : now - e.time <= 10)
    /\ [](lastOp = "strongest" =>
            IF IsNone(lastS) THEN recent = << >>
            ELSE Val(lastS) \in Range(recent) /\ now - Val(lastS).time <= 10)
    /\ [][\A i \in 1..Len(recent) :
            now' - recent[i].time < 10 => recent[i] \in Range(recent')]_vars

\* C7 witness: of two observations the one aged 11 s has been evicted and the
\* one aged exactly 10 s is still stored and was returned
C7_Witness ==
    /\ lastOp = "strongest"
    /\ nAdv = 2
    /\ Len(recent) = 1
    /\ now - recent[1].time = 10
    /\ lastS = Some(recent[1])

\* str.lower() of one character, and case-insensitive containment of a hint
LowerChar(c) == lower(<< c >>)[1]
ContainsCI(hint, name) ==
    \E k \in 0..(Len(name) - Len(hint)) :
        \A j \in 1..Len(hint) : LowerChar(name[k + j]) = LowerChar(hint[j])

\* the qualification rule of the Advertisement Filter, as the specification
\* words it, on (name, rssi, manufacturer map)
VendorPresent(ev) == 76 \in DOMAIN ev.mfg
NameHinted(ev) ==
    /\ ~IsNone(ev.name)
    /\ \E k \in 1..Len(NAME_HINTS) : ContainsCI(NAME_HINTS[k], Val(ev.name))
Qualifies(ev) ==
    /\ VendorPresent(ev) \/ NameHinted(ev)
    /\ ~IsNone(ev.rssi)
    /\ Val(ev.rssi) >= -90

\* C8: through the callback and through a sweep alike, an event is inserted
\* iff (vendor id in its map or name hint matched) and RSSI present and
\* RSSI >= -90; the stored payload is present exactly when the vendor id is,
\* and then is the hex encoding of that vendor's bytes.
C8_FilterRule ==
    path # "none" =>
        /\ recent # << >> <=> Qualifies(event)
        /\ recent # << >> =>
            /\ Len(recent) = 1
            /\ ~IsNone(recent[1].mfg_hex) <=> VendorPresent(event)
            /\ VendorPresent(event) =>
                  /\ Len(Val(recent[1].mfg_hex)) = 2 * Len(event.mfg[76])
                  /\ Val(recent[1].mfg_hex) = hexlify(event.mfg[76])
            /\ recent[1].device.rssi = event.rssi
            /\ recent[1].device.address = event.address
            /\ recent[1].name = OrStr(event.name, << >>)

\* C8 witness: the callback stored a name-only match at the threshold RSSI
C8_Witness ==
    /\ path = "scan"
    /\ event.rssi = Some(-90)
    /\ ~VendorPresent(event)
    /\ event.name = Some(NameMixedCase)
    /\ Len(recent) = 1
    /\ IsNone(recent[1].mfg_hex)

\* the percentage transform as the specification words it
PctOf(v) == IF v = 10 THEN 100 ELSE IF v <= 9 THEN v * 10 + 5 ELSE -1

\* the nibble at a 0-based offset of the payload under test
Nibble(raw, idx) == HexInt(raw[idx + 1])

\* bit 1 of the digit at offset 10 is zero
FlipBitZero(raw) == (Nibble(raw, 10) \div 2) % 2 = 0

\* C9: each charge is the transform of its nibble (offsets 12 and 13 for
\* left/right in the order the flip bit selects, offset 15 for the case):
\* 100 for 10, v*10+5 for v <= 9, -1 for 11..15; so every charge is -1 or
\* lies in [0,100].
C9_PercentTransform ==
    ~IsNone(decoded) =>
        LET c == Val(decoded).charge
        IN  /\ c.case = PctOf(Nibble(raw_hex, 15))
            /\ c.left = PctOf(Nibble(raw_hex, IF FlipBitZero(raw_hex) THEN 12 ELSE 13))
            /\ c.right = PctOf(Nibble(raw_hex, IF FlipBitZero(raw_hex) THEN 13 ELSE 12))
            /\ \A x \in {c.left, c.right, c.case} : x = -1 \/ x \in 0..100

\* C9 witness: nibbles 10, 11 and 0 decoded to 100, unknown and 5
C9_Witness ==
    /\ ~IsNone(decoded)
    /\ Val(decoded).charge.left = 100
    /\ Val(decoded).charge.right = -1
    /\ Val(decoded).charge.case = 5

\* P with bit 1 of digit 10 toggled, digits 12 and 13 exchanged and bits 0 and
\* 1 of digit 14 exchanged
FlipTransform(raw) ==
    LET v10 == Nibble(raw, 10)
        v14 == Nibble(raw, 14)
        b0 == v14 % 2
        b1 == (v14 \div 2) % 2
    IN  [i \in 1..Len(raw) |->
            IF i = 11 THEN HexDigits[(IF (v10 \div 2) % 2 = 0 THEN v10 + 2 ELSE v10 - 2) + 1]
            ELSE IF i = 13 THEN raw[14]
            ELSE IF i = 14 THEN raw[13]
            ELSE IF i = 15 THEN HexDigits[(v14 - b0 - 2 * b1 + 2 * b0 + b1) + 1]
            ELSE raw[i]]

\* C10: decoding P and decoding its flip transform give the same left and
\* right charge and the same left and right charging flags, and flip is true
\* exactly when bit 1 of the digit at offset 10 is zero.
C10_FlipSymmetry ==
    ~IsNone(decoded) =>
        LET a == Val(decoded)
            b == decode_airpods(FlipTransform(raw_hex), now)
        IN  /\ a.charge.left = b.charge.left
            /\ a.charge.right = b.charge.right
            /\ a.charging_left = b.charging_left
            /\ a.charging_right = b.charging_right
            /\ is_flipped(raw_hex) <=> FlipBitZero(raw_hex)
            /\ is_flipped(FlipTransform(raw_hex)) <=> ~FlipBitZero(raw_hex)

\* C10 witness: a decoded payload whose left and right sides differ in charge
\* and in charging flag
C10_Witness ==
    /\ ~IsNone(decoded)
    /\ Val(decoded).charge.left # Val(decoded).charge.right
    /\ Val(decoded).charging_left # Val(decoded).charging_right
    /\ FlipTransform(raw_hex) # raw_hex

\* the model name the specification assigns to the digit at offset 7
ModelByDigit(c) ==
    CASE c = "e" -> "AirPodsPro"
      [] c = "3" -> "AirPods3"
      [] c = "f" -> "AirPods2"
      [] c = "2" -> "AirPods1"
      [] c = "a" -> "AirPodsMax"
      [] OTHER -> "unknown"

PercentValues == {-1, 100} \cup {v * 10 + 5 : v \in 0..9}

\* C11: whenever a tick hands a payload of the configured length to the
\* decoder, decoding completes without error and the emitted record has every
\* field defined, its model being the one the digit at offset 7 selects.
C11_DecoderTotal ==
    (lastOp = "strongest" /\ ~IsNone(decArg)) =>
        /\ raised # "decode"
        /\ ~IsNone(lastOut)
        /\ LET out == Val(lastOut)
           IN  /\ out.status = 1
               /\ out.charge.left \in PercentValues
               /\ out.charge.right \in PercentValues
               /\ out.charge.case \in PercentValues
               /\ out.charging_left \in BOOLEAN
               /\ out.charging_right \in BOOLEAN
               /\ out.charging_case \in BOOLEAN
               /\ out.model = ModelByDigit(Val(decArg)[8])
               /\ out.raw = Val(decArg)

\* the tick loop of run_async has been entered: a start succeeded or the
\* start loop ran out of attempts
LoopEntered == started \/ attempt = START_ATTEMPTS

\* C12: once the tick loop has been entered, its termination (signal, fatal
\* sweep error or sink failure) comes with exactly one stop request in either
\* mode; stop is never requested at any other moment, and a failing stop
\* request leaves the run stopped with its original cause.
C12_StopOnceOnLoopExit ==
    /\ stopReqs <= 1
    /\ (pc = "stopped" /\ LoopEntered) =>
           (stopReqs = 1 /\ raised \in {"signal", "sweep", "sink"})
    /\ raised \in {"sweep", "sink"} => (pc = "stopped" /\ LoopEntered)
    /\ (raised = "sweep") => use_poll
    /\ pc # "stopped" => (stopReqs = 0 /\ ~stopErr /\ raised = "none")
    /\ stopErr => (pc = "stopped" /\ stopReqs = 1)

\* C12 witness: a polling run ended by a fatal sweep error whose stop request
\* itself failed
C12_Witness ==
    /\ pc = "stopped"
    /\ use_poll
    /\ raised = "sweep"
    /\ stopReqs = 1
    /\ stopErr

\* a step in which scanner.start() failed with "InProgress"
InProgressFailure ==
    /\ pc = "start"
    /\ startReqs' = startReqs + 1
    /\ ~started'
    /\ raised' = "none"

\* C13 as claimed: the adapter reset is invoked only when another start
\* attempt follows it, hence at most 5 times in a run.
C13_ResetAtMostFive ==
    /\ kicks <= START_ATTEMPTS - 1
    /\ kicks > 0 => startReqs >= kicks

\* C13 as amended: every "in progress" start failure, the sixth included, is
\* followed by the adapter reset and the settle delay; after the first five
\* another start attempt follows, after the sixth the controller is in Polling
\* and no start attempt follows; the reset is invoked at most 6 times, once
\* per failed attempt.
C13_ResetOnEveryFailure ==
    /\ [](kicks = attempt /\ kicks <= START_ATTEMPTS)
    /\ [][InProgressFailure =>
            /\ kicks' = kicks + 1
            /\ now' = now + SETTLE_SEC
            /\ attempt' = attempt + 1
            /\ attempt < START_ATTEMPTS - 1 => (pc' = "start" /\ ~use_poll')
            /\ attempt = START_ATTEMPTS - 1 => (pc' = "sleep" /\ use_poll')]_vars
    /\ [][pc # "start" => (startReqs' = startReqs /\ kicks' = kicks)]_vars

\* C13 witness: the sixth failure has reset the adapter and left the
\* controller in Polling, before its first tick
C13_Witness ==
    /\ kicks = START_ATTEMPTS
    /\ startReqs = START_ATTEMPTS
    /\ now = START_ATTEMPTS * SETTLE_SEC
    /\ use_poll
    /\ pc = "sleep"
    /\ nTicks = 0

\* C14 as claimed: insert returns the current strongest observation: a value
\* whose RSSI is the greatest among the unexpired entries and which is, up to
\* its timestamp, the entry strongest() would return at that instant; this
\* includes the case of an earlier, stronger entry with the inserted address.
C14_InsertReturnsStrongest ==
    lastOp = "insert" =>
        /\ ~IsNone(lastRet)
        /\ \A e \in Range(recent) : RssiOf(e) <= RssiOf(Val(lastRet))
        /\ LET s == Val(pick_strongest(recent, now).strongest)
           IN  /\ Val(lastRet).device = s.device
               /\ Val(lastRet).mfg_hex = s.mfg_hex
               /\ Val(lastRet).name = s.name

\* C14 where no stored RSSI is 0: still refuted, by the same-address case
C14_InsertReturnsStrongestNonZero ==
    (lastOp = "insert" /\ \A e \in Range(recent) : RssiOf(e) # 0) =>
        \A e \in Range(recent) : RssiOf(e) <= RssiOf(Val(lastRet))

\* C15: when the facility answers every start request, the start phase ends:
\* the controller eventually is event-driven, polling or stopped; it never
\* re-enters the start phase and never issues more than 6 start requests.
C15_StartupTerminates ==
    /\ <>(pc # "start")
    /\ <>(started \/ use_poll \/ pc = "stopped")
    /\ [](pc # "start" => (started \/ use_poll \/ pc = "stopped"))
    /\ [](startReqs <= 6)
    /\ [][pc # "start" => pc' # "start"]_vars

\* C15 witness: the start phase ended with a success on the last attempt of
\* the budget
C15_Witness ==
    /\ pc = "sleep"
    /\ started
    /\ attempt = START_ATTEMPTS - 1
    /\ startReqs = START_ATTEMPTS
    /\ ~use_poll

\* C16: the two modes exclude each other and are fixed once the start phase
\* is over; an event-driven run never calls discover(); polling is entered
\* only after six failed start requests and none that succeeded, and a polling
\* run receives observations through sweeps only.
C16_ModeExclusive ==
    /\ [](~(started /\ use_poll))
    /\ [](pc \in {"sleep", "poll", "read"} => (started \/ use_poll))
    /\ [](started => (sweeps = 0 /\ pc # "poll"))
    /\ [](use_poll => (startReqs = 6 /\ attempt = 6 /\ ~started))
    /\ [][pc # "start" => (started' = started /\ use_poll' = use_poll)]_vars
    /\ [][(use_poll /\ (nAdv' # nAdv \/ Len(recent') > Len(recent)))
            => (pc = "poll" /\ sweeps' = sweeps + 1)]_vars
    /\ [][sweeps' # sweeps => use_poll]_vars

\* C16 witness: a polling run whose sweep put two observations into the
\* window
C16_Witness ==
    /\ use_poll
    /\ ~started
    /\ sweeps = 1
    /\ sweep = "ok"
    /\ Len(recent) = 2
    /\ pc = "read"

\* a window entry with every field of the dict keep_best stores
CompleteEntry(e) ==
    /\ DOMAIN e = {"time", "device", "mfg_hex", "name"}
    /\ DOMAIN e.device = {"address", "name", "rssi", "metadata"}

\* C17: a tick's eviction, selection, decode and emit form one step that no
\* callback interleaves with: the step delivers no advertisement and adds no
\* entry, what it selects is a complete entry of the window as it stood at
\* the read and is unexpired at that moment, and the record it emits is the
\* one of that selection. Advertisements are delivered only while the
\* controller is suspended, and such a step neither selects nor emits.
C17_TickAtomic ==
    /\ [][pc = "read" =>
            /\ nAdv' = nAdv
            /\ now' = now
            /\ lastOp' = "strongest"
            /\ \A e \in Range(recent') : e \in Range(recent)
            /\ IF IsNone(lastS')
               THEN \A e \in Range(recent) : now - e.time > 10
               ELSE /\ Val(lastS') \in Range(recent)
                    /\ Val(lastS') \in Range(recent')
                    /\ CompleteEntry(Val(lastS'))
                    /\ now - Val(lastS').time <= 10
            /\ nOut' = nOut + 1
            /\ RecordFor(lastS', Val(lastOut'))]_vars
    /\ [][nAdv' # nAdv =>
            /\ pc \in {"sleep", "poll"}
            /\ nOut' = nOut
            /\ lastS' = lastS
            /\ lastOut' = lastOut]_vars
    /\ [](\A e \in Range(recent) : CompleteEntry(e))

\* C17 witness: a callback inserted between two ticks, and the second tick
\* selected and emitted that later entry
C17_Witness ==
    /\ started
    /\ nTicks = 2
    /\ nOut = 2
    /\ lastOp = "strongest"
    /\ Len(recent) = 2
    /\ recent[1].time < recent[2].time
    /\ lastS = Some(recent[2])
    /\ Val(lastOut).status = 1

\* new is old with some entries removed, order and contents kept
IsSubSeq(new, old) ==
    \E f \in [1..Len(new) -> 1..Len(old)] :
        /\ \A i \in 1..Len(new) : new[i] = old[f[i]]
        /\ \A i \in 1..Len(new) : \A j \in 1..Len(new) : i < j => f[i] < f[j]

\* what is left of the window before the step, in the window after it
KeptPart ==
    IF nAdv' # nAdv /\ lastOp' = "insert" /\ recent' # << >>
       /\ recent'[Len(recent')].time = now
    THEN SubSeq(recent', 1, Len(recent') - 1)
    ELSE recent'

\* C18: no step changes a stored entry: the window after a step is the window
\* before it without the entries that expired by their original insertion
\* time, plus at most the one entry a callback appended; the refresh of
\* insert shows in the returned value only, and a device advertising again
\* leaves the time of its earlier entry as it was.
C18_StoredNeverMutated ==
    [][/\ IsSubSeq(KeptPart, recent)
       /\ \A i \in 1..Len(recent) :
             now' - recent[i].time <= 10 => recent[i] \in Range(recent')
       /\ \A e \in Range(recent) :
             e \notin Range(recent') => now - e.time > 10]_vars

\* C18 witness: a device advertised again, weaker, while its earlier entry
\* was the strongest: insert returned the new record with the new time and
\* the earlier entry kept its own
C18_Witness ==
    /\ lastOp = "insert"
    /\ Len(recent) = 2
    /\ recent[1].device.address = recent[2].device.address
    /\ RssiOf(recent[1]) > RssiOf(recent[2])
    /\ recent[1].time < recent[2].time
    /\ recent[2].time = now
    /\ lastRet = Some(recent[2])

\* C19: every stored observation has a payload or a non-empty name that
\* contains a name hint; so a degraded record with the name-only note has
\* model "AirPods detected", and model "Apple device detected" goes with the
\* unsupported-length note only.
C19_PayloadOrHintedName ==
    /\ \A e \in Range(recent) :
          \/ ~IsNone(e.mfg_hex)
          \/ /\ e.name # << >>
             /\ \E k \in 1..Len(NAME_HINTS) : ContainsCI(NAME_HINTS[k], e.name)
    /\ (~IsNone(lastOut) /\ "note" \in DOMAIN Val(lastOut)) =>
          /\ Val(lastOut).note = NoteNameOnly => Val(lastOut).model = "AirPods detected"
          /\ Val(lastOut).model = "Apple device detected"
                => Val(lastOut).note = NoteUnsupported
          /\ Val(lastOut).note = NoteNameOnly => Val(lastOut).name # << >>

\* C19 witness: a tick emitted "Apple device detected" for a nameless
\* observation with a payload of unsupported length, while the window also
\* holds an observation matched by name only
C19_Witness ==
    /\ ~IsNone(lastOut)
    /\ Val(lastOut).model = "Apple device detected"
    /\ Val(lastOut).note = NoteUnsupported
    /\ Val(lastOut).name = << >>
    /\ \E e \in Range(recent) : IsNone(e.mfg_hex)

\* C20: every stored observation has an RSSI, and it is at least -90; the
\* sentinel of the selection never stands for a missing RSSI, and the rssi of
\* a degraded record is never null.
C20_RssiPresent ==
    /\ \A e \in Range(recent) :
          /\ ~IsNone(e.device.rssi)
          /\ Val(e.device.rssi) >= -90
          /\ OrInt(e.device.rssi, RSSI_SENTINEL) = RSSI_SENTINEL
                => Val(e.device.rssi) = 0
    /\ (~IsNone(lastOut) /\ "rssi" \in DOMAIN Val(lastOut)) =>
          /\ ~IsNone(Val(lastOut).rssi)
          /\ Val(Val(lastOut).rssi) >= -90

\* C20 witness: a degraded record carrying the threshold RSSI itself
C20_Witness ==
    /\ ~IsNone(lastOut)
    /\ Val(lastOut).status = 0
    /\ "rssi" \in DOMAIN Val(lastOut)
    /\ Val(lastOut).rssi = Some(-90)
    /\ Len(recent) = 1

=============================================================================
